---- MODULE Spec2Model ----
(***************************************************************************)
(* Model of the orchestration state machine of OptDisPro                   *)
(* (src/agents/multi_agent_system.py) and of the decision function         *)
(* (src/agents/manager.py).                                                *)
(*                                                                         *)
(* Program texts are tuples: <<>> is Python's None / a missing key,        *)
(* <<"asm", a, b>> is the text the assembler builds from fragments a and   *)
(* b, <<"rev", r>> is a text written by the full-program reviewer.         *)
(* String-valued fields use "None" for Python's None / a missing key.      *)
(***************************************************************************)
EXTENDS Integers, Sequences, FiniteSets, TLC

\* ---------------------------------------------------------------- bounds
MaxIter == 3
MaxLines == 2
MaxCalls == 6

\* ------------------------------------------------------ program constants
ManagerCeiling == 5

\* --------------------------------------------------------------- alphabet
NoCode == <<>>
NoneStr == "None"

FragAs == {"A1"}
FragBs == {"B1", "B2"}
ReviewerTexts == {<<"rev", "R1">>}

Falsy(frag) == frag = NoneStr \/ frag = ""

\* insert_code_snippets_robust as the orchestrator sees it: a function of
\* the two fragments; a falsy fragment only has its placeholder removed.
Assemble(a, b) ==
    <<"asm", IF Falsy(a) THEN "" ELSE a, IF Falsy(b) THEN "" ELSE b>>

\* ------------------------------------------------------- execution results
ExecAbsent == [kind |-> "absent", success |-> FALSE, output |-> "", error |-> ""]
ExecNone == [kind |-> "none", success |-> FALSE, output |-> "", error |-> ""]
ExecOk == [kind |-> "result", success |-> TRUE, output |-> "out", error |-> ""]
ExecFail == [kind |-> "result", success |-> FALSE, output |-> "out", error |-> "Traceback"]

\* What CodeExecutor.execute_file can do with a saved program: return a
\* result with success = TRUE, return one with success = FALSE (a fault of
\* class Exception was caught), or let a fault that is not of class
\* Exception (SystemExit, KeyboardInterrupt) pass through.
SandboxOutcomes == {"ok", "error", "exit"}

ExecutionResultOf(outcome) == IF outcome = "ok" THEN ExecOk ELSE ExecFail

\* ------------------------------------------------------------ round result
\* The dict a round returns.  A key the dict does not carry reads as
\* None through dict.get.
EmptyResult ==
    [success |-> FALSE, error |-> NoneStr, execution_result |-> ExecAbsent,
     corrected_complete_code |-> NoCode, initial_complete_code |-> NoCode,
     complete_code |-> NoCode]

Round1Result == [EmptyResult EXCEPT !.execution_result = ExecNone]

\* --------------------------------------------------------------- decisions
FourKinds == {"TERMINATE_SUCCESS", "TERMINATE_FAILURE", "NEED_CORRECTION", "UPDATE_SOLVER"}
TerminalReasons == {"TERMINATE_SUCCESS", "TERMINATE_FAILURE", "TERMINATE_MAX_ITERATIONS"}

NoDecision == [decision |-> NoneStr, feedback |-> ""]

VARIABLES
    pc,              \* position of solve_optimization_problem
    workflow_state,  \* self.workflow_state
    codebook,        \* self.codebook
    current_result,  \* local current_result of solve_optimization_problem
    manager,         \* the ManagerAgent object
    manager_decision,\* the decision returned by the latest make_decision
    returned,        \* the value solve_optimization_problem returned
    round_calls,     \* calls made by the latest round, in order
    executed,        \* programs run by the sandbox so far, in order
    decision_inputs, \* the arguments of the latest make_decision
    n_decisions,     \* number of make_decision calls so far
    sandbox,         \* the process context around one call of the CodeExecutor
    assembly,        \* one call of CodeTemplate.insert_code_snippets_robust
    parsed           \* one call of a reply parser (reviewer verdict, manager decision)

orch_vars == <<pc, workflow_state, codebook, current_result, manager,
               manager_decision, returned, round_calls, executed,
               decision_inputs, n_decisions>>
aux_vars == <<sandbox, assembly, parsed>>
vars == <<orch_vars, aux_vars>>

\* ================================================================ manager
\* A reply of the generation service is a sequence of lines; a line is
\* <<tag, value>>: tag is the label the stripped line starts with ("OTHER"
\* when it starts with none of the four labels) and value is the stripped
\* text after the first colon.
DecisionValues == FourKinds \cup {"CONTINUE_OPTIMIZATION", "REVIEW"}
ReplyLines ==
    {<<"DECISION", d>> : d \in DecisionValues}
        \cup {<<"FEEDBACK", "F1">>, <<"REASON", "why">>, <<"OTHER", "text">>}
ReplyTexts == UNION {[1..n -> ReplyLines] : n \in 0..MaxLines}

RECURSIVE LastValue(_, _, _)
LastValue(lines, tag, default) ==
    IF lines = <<>> THEN default
    ELSE LET n == Len(lines)
         IN IF lines[n][1] = tag THEN lines[n][2]
            ELSE LastValue(SubSeq(lines, 1, n - 1), tag, default)

\* ManagerAgent._parse_decision_result (reason and next_action are parsed
\* the same way and never read by the orchestrator).
ParseDecisionResult(decision_text) ==
    [decision |-> LastValue(decision_text, "DECISION", "CONTINUE_OPTIMIZATION"),
     feedback |-> LastValue(decision_text, "FEEDBACK", "")]

\* Inputs of the rule-based decision.
ErrorInfos == {NoneStr, "syntax error", "other error"}
HasSevereKeyword(error_info) == error_info = "syntax error"

MgrExecResults == {ExecNone, ExecOk, ExecFail}

ObjectiveValues == {NoneStr, "inf", "-inf", "finite"}
OptNone ==
    [kind |-> "none", has_all_results |-> FALSE, n_ok |-> 0, n_err |-> 0,
     success |-> FALSE, objective_value |-> NoneStr]
OptimizationResults ==
    {OptNone}
        \cup [kind : {"multi"}, has_all_results : {TRUE}, n_ok : 0..2,
              n_err : 0..2, success : {FALSE}, objective_value : {NoneStr}]
        \cup [kind : {"multi", "plain"}, has_all_results : {FALSE}, n_ok : {0},
              n_err : {0}, success : BOOLEAN, objective_value : ObjectiveValues]

Decision(kind, feedback) == [decision |-> kind, feedback |-> feedback]

\* The result-quality rules of _mock_decision, manager.py lines 158-207.
QualityDecision(iteration_count, opt) ==
    IF opt.kind = "none" THEN Decision("CONTINUE_OPTIMIZATION", "continuing")
    ELSE IF opt.success /\ opt.objective_value # NoneStr
    THEN IF opt.objective_value \in {"inf", "-inf"}
         THEN Decision("NEED_CORRECTION", "abnormal result")
         ELSE Decision("TERMINATE_SUCCESS", "optimization succeeded")
    ELSE IF iteration_count <= 2
         THEN Decision("CONTINUE_OPTIMIZATION", "trying to improve")
         ELSE Decision("TERMINATE_FAILURE", "still failing")

\* The multi-algorithm rules of _mock_decision, manager.py lines 108-156.
MultiDecision(iteration_count, opt) ==
    IF opt.n_ok > 0
    THEN IF 2 * opt.n_ok >= opt.n_ok + opt.n_err
         THEN Decision("TERMINATE_SUCCESS", "multi-algorithm success")
         ELSE Decision("CONTINUE_OPTIMIZATION", "partly succeeded")
    ELSE IF iteration_count <= 2
         THEN Decision("CONTINUE_OPTIMIZATION", "all failed, retry")
         ELSE Decision("TERMINATE_FAILURE", "all failed")

\* _mock_decision without the check of the execution result (lines
\* 98-106): a failed execution is judged by the optimization result.
MockDecisionWithoutExecutionCheck(iteration_count, max_iterations, execution_result, opt, error_info) ==
    IF iteration_count >= max_iterations
    THEN Decision("TERMINATE_FAILURE", "iteration limit")
    ELSE IF error_info # NoneStr /\ HasSevereKeyword(error_info)
    THEN Decision("NEED_CORRECTION", "severe error")
    ELSE IF opt.kind = "multi" /\ opt.has_all_results
    THEN MultiDecision(iteration_count, opt)
    ELSE QualityDecision(iteration_count, opt)

\* ManagerAgent._mock_decision; iteration_count is the count after the
\* increment make_decision performs.
MockDecision(iteration_count, max_iterations, execution_result, opt, error_info) ==
    IF iteration_count >= max_iterations
    THEN Decision("TERMINATE_FAILURE", "iteration limit")
    ELSE IF error_info # NoneStr /\ HasSevereKeyword(error_info)
    THEN Decision("NEED_CORRECTION", "severe error")
    ELSE IF execution_result.kind # "result" \/ ~execution_result.success
    THEN Decision("NEED_CORRECTION", "execution failed")
    ELSE IF opt.kind = "multi" /\ opt.has_all_results
    THEN MultiDecision(iteration_count, opt)
    ELSE QualityDecision(iteration_count, opt)

\* =========================================================== orchestrator
Absent == "<absent>"
NoLog == [feedback |-> NoneStr, output |-> NoneStr, error |-> NoneStr]

\* One call a round makes: op names the callee, code the program text it
\* is given (NoCode when it takes none), error_log the log handed to the
\* reviewer, outcome how the call ended (for a review that returned, the
\* verdict's status), reply the text it returned (NoCode when none).
Call(op, code, error_log, outcome, reply) ==
    [op |-> op, code |-> code, error_log |-> error_log, outcome |-> outcome,
     reply |-> reply]

\* What a round does: the dict it returns, the codebook it leaves, the calls
\* it made, and how it ended: "ok" (it returned), "fault" (a fault of class
\* Exception left the round), "exit" (a fault not of class Exception left
\* the sandbox and every handler above it).
Outcome(result, cb, calls, ending) ==
    [result |-> result, codebook |-> cb, calls |-> calls, ending |-> ending]

Entry(iteration, code) == [iteration |-> iteration, code |-> code]

\* A ledger append keyed by the counter instead of the round number.
Append4KeyedByCounter(cb, list, iteration, code) ==
    [cb EXCEPT ![list] = Append(@, Entry(iteration - 1, code))]

\* An append to one ledger list, as in lines 1203-1207 (the timestamp and
\* the annotations of later rounds are left out).
Append4(cb, list, iteration, code) ==
    [cb EXCEPT ![list] = Append(@, Entry(iteration, code))]

ReviewStatuses == {"PASS", "NEEDS_MODIFICATION", "FAIL"}

\* The verdicts review_complete_code can return for complete_code: any
\* status text, and a corrected text that is empty, equal to the reviewed
\* text, or new.
ReviewVerdicts(complete_code) ==
    [status : ReviewStatuses,
     corrected_complete_code : {NoCode, complete_code} \cup ReviewerTexts]

\* _prepare_error_log, lines 575-582; it reads execution_result.get, which
\* faults when the key holds None.
PrepareErrorLogFaults(iteration_result) ==
    iteration_result.execution_result.kind = "none"

PrepareErrorLog(decision, iteration_result) ==
    [feedback |-> decision.feedback,
     output |-> iteration_result.execution_result.output,
     error |-> iteration_result.execution_result.error]

\* The program _execute_correction_with_reviewer_full takes as its base,
\* lines 297-314.
CodeToCorrect(iteration_result, cb) ==
    IF iteration_result.corrected_complete_code # NoCode
    THEN iteration_result.corrected_complete_code
    ELSE IF iteration_result.initial_complete_code # NoCode
    THEN iteration_result.initial_complete_code
    ELSE cb.current.complete_code

Failure(error) == [EmptyResult EXCEPT !.error = error]

\* save_complete_code followed by execute_file, and the dict the caller
\* builds in each case; on_ok, on_error and on_save_fail are the dicts for a
\* successful run, a failed run and a failed save.
SaveAndExecute(code, cb, calls, on_ok, on_error, on_save_fail) ==
    {Outcome(on_save_fail, cb,
             Append(calls, Call("save", code, NoLog, "fail", NoCode)), "ok")}
        \cup {Outcome(IF o = "ok" THEN on_ok ELSE on_error, cb,
                      calls \o <<Call("save", code, NoLog, "ok", NoCode),
                                 Call("execute", code, NoLog, o, NoCode)>>,
                      IF o = "exit" THEN "exit" ELSE "ok")
              : o \in SandboxOutcomes}

Frag(text) == <<"frag", text>>

\* Mutant: a corrected text is used whatever the verdict's status.
UsesCorrectedAnyStatus(verdict) == verdict.corrected_complete_code # NoCode

\* Mutant: the corrected text is used on NEEDS_MODIFICATION even when empty.
UsesCorrectedOnAnyModification(verdict) == verdict.status = "NEEDS_MODIFICATION"

\* The test of lines 333 and 1171.
UsesCorrected(verdict) ==
    verdict.status = "NEEDS_MODIFICATION" /\ verdict.corrected_complete_code # NoCode

\* Mutant: round 1 saves and runs the assembled program without review.
Round1RunUnreviewed(p0, r1, cb, calls, it) ==
    LET r2 == [r1 EXCEPT !.corrected_complete_code = p0]
    IN SaveAndExecute(p0, cb, calls,
                      [r2 EXCEPT !.execution_result = ExecOk, !.success = TRUE],
                      [r2 EXCEPT !.execution_result = ExecFail, !.error = "ExecFailed"],
                      [r2 EXCEPT !.error = "SaveFailed"])

\* Steps 4-6 of execute_single_round_with_full_reviewer, lines 1157-1235:
\* the reviewer's verdict on the assembled program p0, the choice of the
\* program to run, saving and running it.
Round1ReviewAndRun(p0, r1, cb, calls, it) ==
    {Outcome([r1 EXCEPT !.error = "RoundFault"], cb,
             Append(calls, Call("review", p0, NoLog, "fault", NoCode)), "ok")}
        \cup UNION {
            LET final_code == IF UsesCorrected(v) THEN v.corrected_complete_code ELSE p0
                r2 == [r1 EXCEPT !.corrected_complete_code = final_code]
                cb4 == IF UsesCorrected(v)
                       THEN Append4([cb EXCEPT !.current.corrected_code = final_code],
                                    "corrected_codes", it, final_code)
                       ELSE cb
            IN SaveAndExecute(final_code, cb4,
                              Append(calls, Call("review", p0, NoLog, v.status,
                                                 v.corrected_complete_code)),
                              [r2 EXCEPT !.execution_result = ExecOk, !.success = TRUE],
                              [r2 EXCEPT !.execution_result = ExecFail, !.error = "ExecFailed"],
                              [r2 EXCEPT !.error = "SaveFailed"])
            : v \in ReviewVerdicts(p0)}

\* Steps 2-3, lines 1101-1155: the solver's fragment B and the assembly.
Round1SolveAndAssemble(a, cb, calls, it) ==
    {Outcome([Round1Result EXCEPT !.error = "SolverFailed"], cb,
             Append(calls, Call("solver", Frag(a), NoLog, "fail", NoCode)), "ok")}
        \cup UNION {
            LET cb2 == Append4([cb EXCEPT !.current.optimization_algorithm = b],
                               "optimization_algorithms", it, b)
                calls2 == Append(calls, Call("solver", Frag(a), NoLog, "ok", Frag(b)))
                p0 == Assemble(a, b)
                cb3 == Append4([cb2 EXCEPT !.current.complete_code = p0],
                               "complete_codes", it, p0)
            IN {Outcome([Round1Result EXCEPT !.error = "AssembleFault"], cb2,
                        Append(calls2, Call("assemble", NoCode, NoLog, "fault", NoCode)), "ok")}
                   \cup Round1ReviewAndRun(
                            p0, [Round1Result EXCEPT !.initial_complete_code = p0], cb3,
                            Append(calls2, Call("assemble", NoCode, NoLog, "ok", p0)), it)
            : b \in FragBs}

\* execute_single_round_with_full_reviewer, lines 1032-1244; it is the key
\* current_iteration + 1 of the ledger entries.
Round1Outcomes(cb, it) ==
    {Outcome([Round1Result EXCEPT !.error = "RoundFault"], cb,
             <<Call("designer", NoCode, NoLog, "fault", NoCode)>>, "ok")}
        \cup UNION {
            Round1SolveAndAssemble(
                a,
                Append4([cb EXCEPT !.current.objective_function = a],
                        "objective_functions", it, a),
                <<Call("designer", NoCode, NoLog, "ok", Frag(a))>>, it)
            : a \in FragAs}

\* The branches of _execute_correction_with_reviewer_full on the reviewer's
\* verdict v for the base program, lines 332-422.
CorrectionOnVerdict(v, base, error_log, cb, calls, it) ==
    IF UsesCorrected(v)
    THEN LET corrected_code == v.corrected_complete_code
             cb2 == Append4([cb EXCEPT !.current.corrected_code = corrected_code],
                            "corrected_codes", it, corrected_code)
             r == [EmptyResult EXCEPT !.corrected_complete_code = corrected_code]
         IN SaveAndExecute(corrected_code, cb2, calls,
                           [r EXCEPT !.success = TRUE, !.execution_result = ExecOk],
                           [r EXCEPT !.error = "CorrectedExecFailed",
                                     !.execution_result = ExecFail],
                           Failure("CorrectedSaveFailed"))
    ELSE IF v.status = "PASS"
    THEN LET r == [EmptyResult EXCEPT !.corrected_complete_code = base]
         IN SaveAndExecute(base, cb, calls,
                           [r EXCEPT !.success = TRUE, !.execution_result = ExecOk],
                           [r EXCEPT !.execution_result = ExecFail],
                           Failure("ReconfirmSaveFailed"))
    ELSE {Outcome(Failure("CorrectionFailed"), cb, calls, "ok")}

\* _execute_correction_with_reviewer_full, lines 276-431.
CorrectionOutcomes(decision, iteration_result, cb, it) ==
    IF PrepareErrorLogFaults(iteration_result)
    THEN {Outcome(EmptyResult, cb, <<>>, "fault")}
    ELSE LET error_log == PrepareErrorLog(decision, iteration_result)
             base == CodeToCorrect(iteration_result, cb)
         IN IF base = NoCode
            THEN {Outcome(Failure("NoCodeToCorrect"), cb, <<>>, "ok")}
            ELSE {Outcome(Failure("CorrectionFault"), cb,
                          <<Call("review", base, error_log, "fault", NoCode)>>, "ok")}
                     \cup UNION {
                         CorrectionOnVerdict(v, base, error_log, cb,
                                             <<Call("review", base, error_log, v.status,
                                                    v.corrected_complete_code)>>, it)
                         : v \in ReviewVerdicts(base)}

\* Mutant: the regenerated program is assembled without fragment A.
RegenSnippetsWithoutObjective(cb, new_optimization_algorithm) ==
    [OBJECTIVE_FUNCTION |-> NoneStr,
     OPTIMIZATION_ALGORITHM |-> new_optimization_algorithm]

\* The fragments _regenerate_solver_code hands to the assembler, lines 511-514.
RegenSnippets(cb, new_optimization_algorithm) ==
    [OBJECTIVE_FUNCTION |-> cb.current.objective_function,
     OPTIMIZATION_ALGORITHM |-> new_optimization_algorithm]

\* The codebook after _regenerate_solver_code stored the new fragment B,
\* lines 496-505.
StoreRegenerated(cb, b, it) ==
    Append4([cb EXCEPT !.current.optimization_algorithm = b],
            "optimization_algorithms", it, b)

\* _regenerate_solver_code, lines 433-573.
RegenerateOutcomes(decision, cb, it) ==
    LET a == cb.current.objective_function
    IN {Outcome(Failure("RegenSolverFailed"), cb,
                <<Call("solver", Frag(a), NoLog, "fail", NoCode)>>, "ok")}
           \cup UNION {
               LET cb2 == StoreRegenerated(cb, b, it)
                   calls == <<Call("solver", Frag(a), NoLog, "ok", Frag(b))>>
                   snippets == RegenSnippets(cb2, b)
                   new_complete_code ==
                       Assemble(snippets.OBJECTIVE_FUNCTION, snippets.OPTIMIZATION_ALGORITHM)
                   cb3 == Append4([cb2 EXCEPT !.current.complete_code = new_complete_code],
                                  "complete_codes", it, new_complete_code)
                   r == [EmptyResult EXCEPT !.complete_code = new_complete_code]
               IN {Outcome(Failure("RegenFault"), cb2,
                           Append(calls, Call("assemble", NoCode, NoLog, "fault", NoCode)), "ok")}
                      \cup SaveAndExecute(
                               new_complete_code, cb3,
                               Append(calls, Call("assemble", NoCode, NoLog, "ok", new_complete_code)),
                               [r EXCEPT !.success = TRUE, !.execution_result = ExecOk],
                               [r EXCEPT !.error = "RegenExecFailed",
                                         !.execution_result = ExecFail],
                               Failure("RegenSaveFailed"))
               : b \in FragBs}

\* _execute_manager_decision sending a decision of an unknown kind to the
\* correction path.
ExecuteManagerDecisionRepairingUnknown(decision, result, cb, it) ==
    IF decision.decision = "UPDATE_SOLVER"
    THEN RegenerateOutcomes(decision, cb, it)
    ELSE IF decision.decision \in {"TERMINATE_SUCCESS", "TERMINATE_FAILURE"}
    THEN {Outcome(result, cb, <<>>, "ok")}
    ELSE CorrectionOutcomes(decision, result, cb, it)

\* _execute_manager_decision, lines 142-173.
ExecuteManagerDecision(decision, result, cb, it) ==
    IF decision.decision = "NEED_CORRECTION"
    THEN CorrectionOutcomes(decision, result, cb, it)
    ELSE IF decision.decision = "UPDATE_SOLVER"
    THEN RegenerateOutcomes(decision, cb, it)
    ELSE {Outcome(result, cb, <<>>, "ok")}

\* _should_terminate ending the workflow after every successful result,
\* whatever the decision was.
ShouldTerminateOnAnySuccess(decision, execution_result) ==
    \/ decision.decision \in {"TERMINATE_SUCCESS", "TERMINATE_FAILURE"}
    \/ execution_result.success

\* Mutant: only an explicit TERMINATE_* decision ends the workflow.
ShouldTerminateExplicitOnly(decision, execution_result) ==
    decision.decision \in {"TERMINATE_SUCCESS", "TERMINATE_FAILURE"}

\* _should_terminate, lines 175-197.
ShouldTerminate(decision, execution_result) ==
    \/ decision.decision \in {"TERMINATE_SUCCESS", "TERMINATE_FAILURE"}
    \/ /\ execution_result.success
       /\ decision.decision \notin {"NEED_CORRECTION", "UPDATE_SOLVER"}

\* Mutant: only TERMINATE_SUCCESS counts as success.
FinalSuccessByReasonOnly(termination_reason, final_result) ==
    termination_reason = "TERMINATE_SUCCESS"

\* The success flag of _generate_final_result, lines 232-235.
FinalSuccess(termination_reason, final_result) ==
    \/ termination_reason = "TERMINATE_SUCCESS"
    \/ final_result.success /\ termination_reason # "TERMINATE_FAILURE"

FirstCode(final_result) ==
    IF final_result.corrected_complete_code # NoCode
    THEN final_result.corrected_complete_code
    ELSE IF final_result.complete_code # NoCode
    THEN final_result.complete_code
    ELSE final_result.initial_complete_code

\* The error key of the final result, lines 251-253: present only when the
\* run did not succeed and the last round's dict has a non-empty error.
FinalError(final_success, final_result) ==
    IF ~final_success /\ final_result.error # NoneStr THEN final_result.error ELSE Absent

\* _generate_final_result, lines 221-265, from the workflow state ws that
\* _finalize_workflow left.
GenerateFinalResult(ws) ==
    LET final_result == ws.final_iteration_result
        final_success == FinalSuccess(ws.termination_reason, final_result)
    IN [path |-> "final",
        success |-> final_success,
        termination_reason |-> ws.termination_reason,
        total_iterations |-> ws.current_iteration,
        final_execution_result |-> final_result.execution_result,
        final_complete_code |-> FirstCode(final_result),
        error |-> FinalError(final_success, final_result)]

\* The dict the handler of solve_optimization_problem returns, lines 132-140.
TopLevelFaultResult ==
    [path |-> "fault",
     success |-> FALSE,
     termination_reason |-> Absent,
     total_iterations |-> 0,
     final_execution_result |-> ExecAbsent,
     final_complete_code |-> NoCode,
     error |-> "WorkflowFault"]

NotReturned == [TopLevelFaultResult EXCEPT !.path = "none", !.error = Absent]

\* _finalize_workflow, lines 199-219.
FinalizeWorkflow(ws, final_decision, final_result) ==
    [ws EXCEPT !.termination_reason = final_decision.decision,
               !.final_iteration_result = final_result]

\* ================================================================ sandbox
\* The process context a sandbox call works in: working directory, module
\* search path, the two standard streams, and whether the temporary file of
\* execute_code exists.
Dirs == {"home", "work", "other"}
FileDir == "work"
SysPaths == {<<"lib">>, <<"lib", "work">>, <<"home", "lib">>}
Streams == {"console", "outer"}

Contexts ==
    [cwd : Dirs, sys_path : SysPaths, stdout : Streams, stderr : Streams,
     temp_file : {FALSE}]

\* What the executed program does to the context and how it ends: "finish",
\* "exception" (a fault of class Exception) or "exit" (SystemExit,
\* KeyboardInterrupt: not of class Exception).
Programs ==
    [chdir : Dirs \cup {"stay"}, path : {"keep", "append", "clear"},
     out : {"keep", "replace", "close"}, writes_stderr : BOOLEAN,
     ending : {"finish", "exception", "exit"}]

NoProgram ==
    [chdir |-> "stay", path |-> "keep", out |-> "keep", writes_stderr |-> FALSE,
     ending |-> "finish"]

\* The result dict of lines 43, 125-130 and 176-181; error is the sequence of
\* the parts of the error text.
InitialExecutionResult == [success |-> FALSE, output |-> "", error |-> <<>>]

\* Lines 54-68 of _execute_file: chdir to the file's directory, put it first
\* on the search path unless present, redirect both streams.
EnterContext(ctx) ==
    [ctx EXCEPT !.cwd = FileDir,
                !.sys_path = IF \E i \in 1..Len(@) : @[i] = FileDir
                             THEN @ ELSE <<FileDir>> \o @,
                !.stdout = "capture", !.stderr = "capture"]

\* The context after runpy.run_path ran the program.
ProgramEffect(ctx, program) ==
    [ctx EXCEPT !.cwd = IF program.chdir = "stay" THEN @ ELSE program.chdir,
                !.sys_path = CASE program.path = "append" -> Append(@, "other")
                               [] program.path = "clear" -> <<>>
                               [] OTHER -> @,
                !.stdout = IF program.out = "replace" THEN "own" ELSE @,
                !.stderr = IF program.out = "replace" THEN "own" ELSE @]

\* Mutant: the search path is left as the program left it.
RestoreContextWithoutPath(ctx, saved) ==
    [ctx EXCEPT !.stdout = saved.stdout, !.stderr = saved.stderr,
                !.cwd = saved.cwd]

\* The outer finally of _execute_file, lines 97-111.
RestoreContext(ctx, saved) ==
    [ctx EXCEPT !.stdout = saved.stdout, !.stderr = saved.stderr,
                !.cwd = saved.cwd, !.sys_path = saved.sys_path]

\* Lines 70-89: the inner try and its handler, which catches class Exception
\* only.
RunResult(program) ==
    CASE program.ending = "finish" -> [InitialExecutionResult EXCEPT !.success = TRUE]
      [] program.ending = "exception" ->
             [InitialExecutionResult EXCEPT !.error = <<"traceback">>]
      [] OTHER -> InitialExecutionResult

\* Lines 91-95, the inner finally: reading the captured output faults when
\* the program closed the stream.
CaptureFaults(program) == program.out = "close"

Captured(result, program) ==
    [result EXCEPT !.output = "out",
                   !.error = IF program.writes_stderr THEN Append(@, "stderr") ELSE @]

\* _execute_file, lines 32-113: the context it leaves, the result it returns
\* and the fault that leaves it ("none", "exception" or "exit").  chdir_ok
\* says whether the chdir of line 56 succeeds.
InnerExecuteFile(ctx, program, chdir_ok) ==
    IF ~chdir_ok
    THEN [ctx |-> RestoreContext(ctx, ctx), result |-> InitialExecutionResult,
          raised |-> "exception"]
    ELSE LET after == ProgramEffect(EnterContext(ctx), program)
             ran == RunResult(program)
         IN [ctx |-> RestoreContext(after, ctx),
             result |-> IF CaptureFaults(program) THEN ran ELSE Captured(ran, program),
             raised |-> CASE CaptureFaults(program) -> "exception"
                          [] program.ending = "exit" -> "exit"
                          [] OTHER -> "none"]

\* The handler of execute_code and execute_file, lines 160-162 and 199-201.
ExecutorFault == [InitialExecutionResult EXCEPT !.error = <<"executor fault">>]

\* execute_file, lines 166-203.
ExecuteFileOutcome(ctx, program, chdir_ok) ==
    LET inner == InnerExecuteFile(ctx, program, chdir_ok)
    IN [ctx |-> inner.ctx,
        result |-> IF inner.raised = "none" THEN inner.result ELSE ExecutorFault,
        raised |-> IF inner.raised = "exit" THEN "exit" ELSE "none"]

\* execute_code, lines 115-164: the temporary file is written, run, and
\* unlinked on the path where _execute_file returned.
ExecuteCodeOutcome(ctx, program, chdir_ok, write_ok) ==
    IF ~write_ok
    THEN [ctx |-> ctx, result |-> ExecutorFault, raised |-> "none"]
    ELSE LET inner == InnerExecuteFile([ctx EXCEPT !.temp_file = TRUE], program, chdir_ok)
         IN [ctx |-> [inner.ctx EXCEPT !.temp_file = inner.raised # "none"],
             result |-> IF inner.raised = "none" THEN inner.result ELSE ExecutorFault,
             raised |-> IF inner.raised = "exit" THEN "exit" ELSE "none"]

\* The sandbox before a call, in context ctx.
SandboxAtRest(ctx) ==
    [pc |-> "idle", entry |-> "none", before |-> ctx, ctx |-> ctx,
     result |-> InitialExecutionResult, program |-> NoProgram,
     internal_fault |-> FALSE]

\* The sandbox after the call entry ended with outcome o.
SandboxAfter(entry, before, program, o, internal_fault) ==
    [pc |-> IF o.raised = "none" THEN "returned" ELSE "raised",
     entry |-> entry, before |-> before, ctx |-> o.ctx, result |-> o.result,
     program |-> program, internal_fault |-> internal_fault]

DefaultContext ==
    [cwd |-> "home", sys_path |-> <<"lib">>, stdout |-> "console",
     stderr |-> "console", temp_file |-> FALSE]

\* ============================================================ the assembler
\* CodeTemplate (src/agents/code_template.py).  A text is the sequence of
\* its lines (the text split at '\n'); <<>> is the empty text.  A line is
\* its indentation in spaces, what its stripped text starts with (kind), a
\* name for the rest of its text (id) and the placeholder marker its text
\* contains (mentions).  The fields from and at record where the line was
\* written: in the template ("base") or in the fragment given for a
\* placeholder, and at which line there.
MaxFragLines == 3

MethodIndent == 8
IndentUnit == 4

\* self.insertion_points, in the order the dict is iterated (lines 15-18).
PointTypes == <<"OBJECTIVE_FUNCTION", "OPTIMIZATION_ALGORITHM">>

Line(indent, kind, id, mentions) ==
    [indent |-> indent, kind |-> kind, id |-> id, mentions |-> mentions,
     from |-> "", at |-> 0]

Statement(indent, id) == Line(indent, "stmt", id, "none")

\* A line that is exactly the placeholder comment of point_type.
Placeholder(indent, point_type) == Line(indent, "marker", point_type, point_type)

\* line.strip() == ""
IsBlank(line) == line.kind = "blank"

Whitespace(indent) == Line(indent, "blank", "", "none")

EmptyLine == Whitespace(0)

Written(lines, from) ==
    [i \in 1..Len(lines) |-> [lines[i] EXCEPT !.from = from, !.at = i]]

RECURSIVE Flatten(_)
Flatten(texts) ==
    IF texts = <<>> THEN <<>> ELSE Head(texts) \o Flatten(Tail(texts))

\* The shape of src/Network_code.py: imports (lines 1-5), class network
\* (line 34) whose methods targetfunction and solve_optimization hold the
\* two placeholders in their bodies (lines 159-165), then run_optimization
\* (line 167) and the __main__ block (line 198).
NetworkTemplate ==
    Written(<<Line(0, "import", "numpy", "none"),
              EmptyLine,
              Line(0, "class", "network", "none"),
              Line(4, "def", "targetfunction", "none"),
              Placeholder(8, "OBJECTIVE_FUNCTION"),
              Statement(8, "pass"),
              Line(4, "def", "solve_optimization", "none"),
              Placeholder(8, "OPTIMIZATION_ALGORITHM"),
              Statement(8, "pass"),
              Line(0, "def", "run_optimization", "none"),
              Statement(0, "if")>>, "base")

\* _get_default_template, lines 33-57: the placeholders sit in the class
\* body, not in a method.
DefaultTemplate ==
    Written(<<Line(0, "import", "numpy", "none"),
              EmptyLine,
              Line(0, "class", "OptimizationSystem", "none"),
              Line(4, "def", "__init__", "none"),
              Statement(8, "assign"),
              Placeholder(4, "OBJECTIVE_FUNCTION"),
              Whitespace(4),
              Placeholder(4, "OPTIMIZATION_ALGORITHM"),
              EmptyLine,
              Statement(0, "if")>>, "base")

\* _load_base_code, lines 21-31.
Templates == {NetworkTemplate, DefaultTemplate}

\* ---- str.strip() and str.replace() on texts
RECURSIVE DropLeadingBlank(_)
DropLeadingBlank(lines) ==
    IF lines = <<>> THEN <<>>
    ELSE IF IsBlank(Head(lines)) THEN DropLeadingBlank(Tail(lines))
    ELSE lines

RECURSIVE DropTrailingBlank(_)
DropTrailingBlank(lines) ==
    IF lines = <<>> THEN <<>>
    ELSE IF IsBlank(lines[Len(lines)])
         THEN DropTrailingBlank(SubSeq(lines, 1, Len(lines) - 1))
    ELSE lines

\* code.strip(): the blank lines at both ends go, and so does the
\* indentation of the first line left.
Strip(lines) ==
    LET kept == DropTrailingBlank(DropLeadingBlank(lines))
    IN  IF kept = <<>> THEN <<>>
        ELSE <<[Head(kept) EXCEPT !.indent = 0]>> \o Tail(kept)

\* placeholder in complete_code
Contains(code, point_type) ==
    \E i \in 1..Len(code) : code[i].mentions = point_type

\* What one line holding the marker of point_type becomes when the marker
\* text is replaced by the text replacement: the text before and after the
\* marker stays, so the first line of the replacement continues the line
\* and its other lines follow.
ReplacedLine(line, replacement) ==
    IF replacement = <<>>
    THEN IF line.kind = "marker"
         THEN <<[Whitespace(line.indent) EXCEPT !.from = line.from, !.at = line.at]>>
         ELSE <<[line EXCEPT !.id = "spliced", !.mentions = "none"]>>
    ELSE IF line.kind = "marker"
         THEN <<IF IsBlank(Head(replacement))
                THEN [Head(replacement) EXCEPT !.indent = line.indent]
                ELSE [Head(replacement) EXCEPT !.indent = line.indent + @]>>
              \o Tail(replacement)
         ELSE <<[line EXCEPT !.id = "spliced",
                             !.mentions = Head(replacement).mentions]>>
              \o Tail(replacement)

\* complete_code.replace(placeholder, replacement): one pass over the text,
\* every occurrence replaced, the replacement itself not searched again.
Replace(code, point_type, replacement) ==
    Flatten([i \in 1..Len(code) |->
                IF code[i].mentions = point_type
                THEN ReplacedLine(code[i], replacement)
                ELSE <<code[i]>>])

\* ---- _normalize_code, lines 127-160
NormalizeCode(code) ==
    LET lines == Strip(code)
        nonblank == SelectSeq(lines, LAMBDA l : ~IsBlank(l))
        base_indent == IF nonblank = <<>> THEN 0 ELSE Head(nonblank).indent
        relative_indent(l) ==
            IF l.indent > base_indent THEN l.indent - base_indent ELSE 0
    IN  [i \in 1..Len(lines) |->
            IF IsBlank(lines[i]) THEN [lines[i] EXCEPT !.indent = 0]
            ELSE [lines[i] EXCEPT
                    !.indent = (relative_indent(lines[i]) \div IndentUnit) * IndentUnit]]

\* ---- ast.parse: the block structure of a text
\* A line that opens a block: a def, a class, a compound statement.
Opens(line) ==
    \/ line.kind \in {"def", "class"}
    \/ line.kind = "stmt" /\ line.id = "if"

\* Python's indentation rule.  stack holds the indentations of the open
\* blocks; opener says that the previous line opened a block.  depth[i] is
\* the block depth of line i, -1 for a blank line.
RECURSIVE Indented(_, _, _)
Indented(lines, stack, opener) ==
    IF lines = <<>> THEN [ok |-> ~opener, depth |-> <<>>]
    ELSE LET line == Head(lines)
             open == SelectSeq(stack, LAMBDA d : d <= line.indent)
             Then(st, d) ==
                 LET rest == Indented(Tail(lines), st, Opens(line))
                 IN  [ok |-> rest.ok, depth |-> <<d>> \o rest.depth]
         IN  IF IsBlank(line)
             THEN LET rest == Indented(Tail(lines), stack, opener)
                  IN  [ok |-> rest.ok, depth |-> <<-1>> \o rest.depth]
             ELSE IF opener
             THEN IF line.indent > stack[Len(stack)]
                  THEN Then(Append(stack, line.indent), Len(stack))
                  ELSE [ok |-> FALSE, depth |-> <<>>]
             ELSE IF open # <<>> /\ open[Len(open)] = line.indent
                  THEN Then(open, Len(open) - 1)
                  ELSE [ok |-> FALSE, depth |-> <<>>]

Structure(lines) == Indented(lines, <<0>>, FALSE)

\* What ast.parse(normalized_code) can do: return a tree, raise SyntaxError
\* (the indentation is wrong, or a statement is), or raise RecursionError
\* (a statement nests too deep for the tree builder).
ParseOutcomes(lines) ==
    IF \A i \in 1..Len(lines) : IsBlank(lines[i]) THEN {"tree"}
    ELSE {"SyntaxError"} \cup
         (IF Structure(lines).ok THEN {"tree"} ELSE {}) \cup
         (IF Structure(lines).ok /\ \E i \in 1..Len(lines) : lines[i].kind = "stmt"
          THEN {"RecursionError"} ELSE {})

Indices(first, last) == [k \in 1..(last - first + 1) |-> first + k - 1]

\* The last line of the top-level node that starts at line i.
NodeEnd(depth, i) ==
    LET later == {j \in (i + 1)..Len(depth) : depth[j] = 0}
    IN  IF later = {} THEN Len(depth)
        ELSE (CHOOSE j \in later : \A k \in later : j <= k) - 1

\* ast.unparse of the statements on lines first..last, whose block sits at
\* depth outer: blank lines go, every line is indented by its depth.
Unparse(lines, depth, first, last, outer) ==
    LET kept == SelectSeq(Indices(first, last), LAMBDA k : ~IsBlank(lines[k]))
    IN  [n \in 1..Len(kept) |->
            [lines[kept[n]] EXCEPT !.indent = (depth[kept[n]] - outer) * IndentUnit]]

\* ---- _add_method_indent, lines 305-319
AddMethodIndent(code) ==
    IF \A i \in 1..Len(code) : IsBlank(code[i]) THEN <<>>
    ELSE [i \in 1..Len(code) |->
             IF IsBlank(code[i]) THEN [code[i] EXCEPT !.indent = 0]
             ELSE [code[i] EXCEPT !.indent = MethodIndent + @]]

\* _extract_from_ast keeping the top-level statements that are no
\* definition as part of the method body.
ExtractFromAstKeepingStatements(lines) ==
    LET depth == Structure(lines).depth
        top == SelectSeq(Indices(1, Len(lines)), LAMBDA i : depth[i] = 0)
        others == SelectSeq(top, LAMBDA i : lines[i].kind # "class")
        classes == SelectSeq(top, LAMBDA i : lines[i].kind = "class")
        bodies ==
            [n \in 1..Len(others) |->
                IF lines[others[n]].kind = "def"
                THEN Unparse(lines, depth, others[n] + 1,
                             NodeEnd(depth, others[n]), 1)
                ELSE Unparse(lines, depth, others[n],
                             NodeEnd(depth, others[n]), 0)]
        class_definitions ==
            [n \in 1..Len(classes) |->
                Unparse(lines, depth, classes[n], NodeEnd(depth, classes[n]), 0)]
    IN  [method_body |-> AddMethodIndent(Flatten(bodies)),
         class_definitions |-> class_definitions]

\* ---- _extract_from_ast, lines 224-247
ExtractFromAst(lines) ==
    LET depth == Structure(lines).depth
        top == SelectSeq(Indices(1, Len(lines)), LAMBDA i : depth[i] = 0)
        functions == SelectSeq(top, LAMBDA i : lines[i].kind = "def")
        classes == SelectSeq(top, LAMBDA i : lines[i].kind = "class")
        function_bodies ==
            [n \in 1..Len(functions) |->
                Unparse(lines, depth, functions[n] + 1,
                        NodeEnd(depth, functions[n]), 1)]
        class_definitions ==
            [n \in 1..Len(classes) |->
                Unparse(lines, depth, classes[n], NodeEnd(depth, classes[n]), 0)]
    IN  [method_body |-> AddMethodIndent(Flatten(function_bodies)),
         class_definitions |-> class_definitions]

\* ---- _extract_from_text, lines 249-288
RECURSIVE TextScan(_, _, _, _, _)
TextScan(lines, method_lines, class_lines, current_class, in_class) ==
    IF lines = <<>>
    THEN [method_lines |-> method_lines,
          class_lines |-> IF current_class # <<>>
                          THEN Append(class_lines, current_class)
                          ELSE class_lines]
    ELSE LET line == Head(lines)
         IN  IF line.kind = "class"
             THEN TextScan(Tail(lines), method_lines,
                           IF current_class # <<>>
                           THEN Append(class_lines, current_class)
                           ELSE class_lines,
                           <<line>>, TRUE)
             ELSE IF in_class
             THEN IF ~IsBlank(line) /\ line.indent = 0
                  THEN TextScan(Tail(lines), Append(method_lines, line),
                                Append(class_lines, current_class), <<>>, FALSE)
                  ELSE TextScan(Tail(lines), method_lines, class_lines,
                                Append(current_class, line), TRUE)
             ELSE IF line.kind # "def"
             THEN TextScan(Tail(lines), Append(method_lines, line),
                           class_lines, current_class, in_class)
             ELSE TextScan(Tail(lines), method_lines, class_lines,
                           current_class, in_class)

ExtractFromText(lines) ==
    LET scan == TextScan(lines, <<>>, <<>>, <<>>, FALSE)
    IN  [method_body |-> AddMethodIndent(Strip(scan.method_lines)),
         class_definitions |-> scan.class_lines]

\* ---- _process_snippet, lines 105-125.  The fragments modelled hold no
\* docstring, so _fix_docstring_indentation (lines 162-222) leaves them as
\* they are.
ProcessSnippet(snippet) ==
    LET normalized_code == NormalizeCode(snippet.lines)
    IN  IF snippet.parse = "tree"
        THEN [raised |-> FALSE] @@ ExtractFromAst(normalized_code)
        ELSE IF snippet.parse = "SyntaxError"
        THEN [raised |-> FALSE] @@ ExtractFromText(normalized_code)
        ELSE [raised |-> TRUE, method_body |-> <<>>, class_definitions |-> <<>>]

\* ---- _simple_indent_fix, lines 321-344
SimpleIndentFix(code) ==
    LET filtered_lines ==
            SelectSeq(Strip(code), LAMBDA l : l.kind \notin {"def", "class"})
    IN  IF \A i \in 1..Len(code) : IsBlank(code[i]) THEN <<>>
        ELSE [i \in 1..Len(filtered_lines) |->
                 IF IsBlank(filtered_lines[i])
                 THEN [filtered_lines[i] EXCEPT !.indent = 0]
                 ELSE [filtered_lines[i] EXCEPT !.indent = MethodIndent]]

\* ---- _insert_classes_at_proper_location, lines 346-395
InsertClassesAtProperLocation(complete_code, class_definitions) ==
    LET n == Len(complete_code)
        declarations == {i \in 1..n : complete_code[i].kind \in {"def", "class"}}
        imports == {i \in 1..n : complete_code[i].kind = "import"}
        first == CHOOSE i \in declarations : \A j \in declarations : i <= j
        last_import == CHOOSE i \in imports : \A j \in imports : j <= i
        block == <<EmptyLine>> \o Flatten(class_definitions) \o <<EmptyLine>>
    IN  IF declarations # {}
        THEN SubSeq(complete_code, 1, first - 1) \o block
             \o SubSeq(complete_code, first, n)
        ELSE IF imports # {}
        THEN SubSeq(complete_code, 1, last_import) \o block
             \o SubSeq(complete_code, last_import + 1, n)
        ELSE Flatten(class_definitions) \o <<EmptyLine>> \o complete_code

\* ---- insert_code_snippets_robust, lines 59-103
\* A fragment map gives, per placeholder, the fragment text and what
\* ast.parse makes of it; given is FALSE for a missing key or None.
NoSnippet == [given |-> FALSE, lines |-> <<>>, parse |-> "tree"]

IsEmptyText(lines) ==
    lines = <<>> \/ (Len(lines) = 1 /\ IsBlank(lines[1]) /\ lines[1].indent = 0)

\* bool(snippets.get(point_type))
Truthy(snippet) == snippet.given /\ ~IsEmptyText(snippet.lines)

\* One turn of the loop of lines 75-95, without the handler of lines 88-92:
\* a fault of _process_snippet leaves insert_code_snippets_robust.
InsertOneUnguarded(point_type, snippet, complete_code, all_classes) ==
    IF Contains(complete_code, point_type) /\ Truthy(snippet)
    THEN LET processed == ProcessSnippet(snippet)
         IN  [raised |-> processed.raised,
              complete_code |->
                  Replace(complete_code, point_type, processed.method_body),
              all_classes |-> all_classes \o processed.class_definitions]
    ELSE [raised |-> FALSE,
          complete_code |-> Replace(complete_code, point_type, <<>>),
          all_classes |-> all_classes]

\* One turn of the loop of lines 75-95.  raised says that a fault left the
\* turn: the handler of lines 88-92 catches every Exception of
\* _process_snippet, and _simple_indent_fix does not fault on a text.
InsertOne(point_type, snippet, complete_code, all_classes) ==
    IF Contains(complete_code, point_type) /\ Truthy(snippet)
    THEN LET processed == ProcessSnippet(snippet)
         IN  IF ~processed.raised
             THEN [raised |-> FALSE,
                   complete_code |->
                       Replace(complete_code, point_type, processed.method_body),
                   all_classes |-> all_classes \o processed.class_definitions]
             ELSE [raised |-> FALSE,
                   complete_code |->
                       Replace(complete_code, point_type,
                               SimpleIndentFix(snippet.lines)),
                   all_classes |-> all_classes]
    ELSE [raised |-> FALSE,
          complete_code |-> Replace(complete_code, point_type, <<>>),
          all_classes |-> all_classes]

RECURSIVE InsertEach(_, _, _, _)
InsertEach(points, snippets, complete_code, all_classes) ==
    IF points = <<>>
    THEN [raised |-> FALSE, complete_code |-> complete_code,
          all_classes |-> all_classes]
    ELSE LET one == InsertOne(Head(points), snippets[Head(points)],
                              complete_code, all_classes)
         IN  IF one.raised THEN one
             ELSE InsertEach(Tail(points), snippets, one.complete_code,
                             one.all_classes)

\* A fault leaves insert_code_snippets_robust.
InsertCodeSnippetsRobustRaises(base_code, snippets) ==
    InsertEach(PointTypes, snippets, base_code, <<>>).raised

InsertCodeSnippetsRobust(base_code, snippets) ==
    LET inserted == InsertEach(PointTypes, snippets, base_code, <<>>)
    IN  IF inserted.all_classes # <<>>
        THEN InsertClassesAtProperLocation(inserted.complete_code,
                                           inserted.all_classes)
        ELSE inserted.complete_code

NoSnippets == [point_type \in {"OBJECTIVE_FUNCTION", "OPTIMIZATION_ALGORITHM"} |-> NoSnippet]

\* The assembler before a call with these arguments.
AssemblyAtRest(base_code, snippets) ==
    [pc |-> "idle", base_code |-> base_code, snippets |-> snippets,
     complete_code |-> <<>>]

\* ====================================================== the verdict parser
\* ReviewerFullAgent._parse_review_result (src/agents/reviewer_full.py).  A
\* verdict text is a sequence of lines; a line is <<tag, value>>: tag is the
\* label the stripped line starts with ("OTHER" when it starts with none of
\* the six labels) and value is the stripped text after the first colon, or
\* the stripped line itself for an OTHER line.
MaxReviewLines == 3

VerdictLines ==
    {<<"REVIEW_STATUS", "PASS">>, <<"REVIEW_STATUS", "NEEDS_MODIFICATION">>,
     <<"ANALYSIS", "fine">>, <<"ISSUES", "">>, <<"SUGGESTIONS", "">>,
     <<"CORRECTED_COMPLETE_CODE", "">>, <<"COMMENTS", "note">>,
     <<"OTHER", "text">>, <<"OTHER", "none">>, <<"OTHER", "no change">>,
     <<"OTHER", "fence">>, <<"OTHER", "">>}

VerdictTexts == UNION {[1..n -> VerdictLines] : n \in 0..MaxReviewLines}

\* The state of the loop of lines 212-268 before the first line.
ReviewScanStart ==
    [status |-> "UNKNOWN", analysis |-> "", issues |-> <<>>,
     suggestions |-> <<>>, corrected_complete_code |-> <<>>, comments |-> "",
     current_section |-> "None", in_code_block |-> FALSE,
     code_block_started |-> FALSE]

\* One content line in the corrected_complete_code section, lines 248-264.
\* "no change" is the line that says no correction is needed, "fence" a
\* markdown fence.
ReviewCodeLine(st, value) ==
    IF value = "no change" THEN st
    ELSE IF st.in_code_block /\ ~st.code_block_started /\ value = "fence"
    THEN [st EXCEPT !.code_block_started = TRUE]
    ELSE IF (st.code_block_started \/ st.in_code_block) /\ value = "fence"
    THEN [st EXCEPT !.code_block_started = st.code_block_started \/ st.in_code_block]
    ELSE [st EXCEPT
            !.code_block_started = st.code_block_started \/ st.in_code_block,
            !.corrected_complete_code = Append(@, value)]

\* One turn of the loop of lines 212-268.  "none" is the line that says
\* the list is empty.
ReviewScanLine(st, line) ==
    LET tag == line[1]
        value == line[2]
        closed == [st EXCEPT !.in_code_block = FALSE, !.code_block_started = FALSE]
    IN  IF tag = "REVIEW_STATUS" THEN [closed EXCEPT !.status = value]
        ELSE IF tag = "ANALYSIS" THEN [closed EXCEPT !.analysis = value]
        ELSE IF tag = "ISSUES" THEN [closed EXCEPT !.current_section = "issues"]
        ELSE IF tag = "SUGGESTIONS"
        THEN [closed EXCEPT !.current_section = "suggestions"]
        ELSE IF tag = "CORRECTED_COMPLETE_CODE"
        THEN [st EXCEPT !.current_section = "corrected_complete_code",
                        !.in_code_block = TRUE, !.code_block_started = FALSE]
        ELSE IF tag = "COMMENTS" THEN [closed EXCEPT !.comments = value]
        ELSE IF st.current_section # "None" /\ (value # "" \/ st.in_code_block)
        THEN IF st.current_section = "issues"
             THEN IF value # "none" THEN [st EXCEPT !.issues = Append(@, value)]
                  ELSE st
             ELSE IF st.current_section = "suggestions"
             THEN IF value # "none"
                  THEN [st EXCEPT !.suggestions = Append(@, value)]
                  ELSE st
             ELSE ReviewCodeLine(st, value)
        ELSE st

RECURSIVE ReviewScan(_, _)
ReviewScan(st, lines) ==
    IF lines = <<>> THEN st
    ELSE ReviewScan(ReviewScanLine(st, Head(lines)), Tail(lines))

\* str.strip() of the collected code: the empty lines at both ends go.
RECURSIVE StripEmpty(_)
StripEmpty(code) ==
    IF code = <<>> THEN <<>>
    ELSE IF Head(code) = "" THEN StripEmpty(Tail(code))
    ELSE IF code[Len(code)] = "" THEN StripEmpty(SubSeq(code, 1, Len(code) - 1))
    ELSE code

\* _parse_review_result, lines 187-280.
ParseReviewResult(review_text) ==
    LET st == ReviewScan(ReviewScanStart, review_text)
    IN  [status |-> IF st.status = "UNKNOWN"
                    THEN IF st.issues # <<>> THEN "NEEDS_MODIFICATION" ELSE "PASS"
                    ELSE st.status,
         analysis |-> st.analysis,
         issues |-> st.issues,
         suggestions |-> st.suggestions,
         corrected_complete_code |-> StripEmpty(st.corrected_complete_code),
         comments |-> st.comments]

\* The parsers before a call on text; kind names the parser.
ParsedAtRest(kind, text) ==
    [pc |-> "idle", kind |-> kind, text |-> text, result |-> <<>>]

\* ================================================================== state
DefaultMaxIterations == 3

NoResult == [EmptyResult EXCEPT !.error = Absent]

RECURSIVE Executions(_, _)
\* The sandbox runs among the calls of a round, keyed by the round number.
Executions(calls, it) ==
    IF calls = <<>> THEN <<>>
    ELSE LET c == Head(calls)
             rest == Executions(Tail(calls), it)
         IN IF c.op = "execute"
            THEN <<[iteration |-> it, code |-> c.code, outcome |-> c.outcome]>> \o rest
            ELSE rest

\* MultiAgentSystem.__init__, lines 20-60, and ManagerAgent.__init__.
Constructed(position, llm_client) ==
    /\ pc = position
    /\ workflow_state =
           [current_iteration |-> 0, max_iterations |-> DefaultMaxIterations,
            termination_reason |-> NoneStr, final_iteration_result |-> NoResult,
            execution_history |-> <<>>]
    /\ codebook =
           [objective_functions |-> <<>>, optimization_algorithms |-> <<>>,
            complete_codes |-> <<>>, corrected_codes |-> <<>>,
            current |-> [objective_function |-> NoneStr,
                         optimization_algorithm |-> NoneStr,
                         complete_code |-> NoCode, corrected_code |-> NoCode]]
    /\ current_result = NoResult
    /\ manager = [iteration_count |-> 0, max_iterations |-> ManagerCeiling,
                  llm_client |-> llm_client]
    /\ manager_decision = NoDecision
    /\ returned = NotReturned
    /\ round_calls = <<>>
    /\ executed = <<>>
    /\ decision_inputs =
           [execution_result |-> ExecAbsent, optimization_result |-> OptNone,
            error_info |-> NoneStr]
    /\ n_decisions = 0

Init ==
    /\ Constructed("idle", TRUE)
    /\ sandbox = SandboxAtRest(DefaultContext)
    /\ assembly = AssemblyAtRest(NetworkTemplate, NoSnippets)
    /\ parsed = ParsedAtRest("review", <<>>)

\* solve_optimization_problem up to the start of round 1: _initialize_workflow,
\* lines 267-272.
SolveOptimizationProblem ==
    /\ pc = "idle"
    /\ \E m \in 0..MaxIter :
           workflow_state' = [workflow_state EXCEPT !.current_iteration = 0,
                                                    !.max_iterations = m]
    /\ pc' = "round1"
    /\ UNCHANGED <<codebook, current_result, manager, manager_decision, returned,
                   round_calls, executed, decision_inputs, n_decisions>>
    /\ UNCHANGED aux_vars

\* Round 1, lines 92-95.
Round1 ==
    /\ pc = "round1"
    /\ \E o \in Round1Outcomes(codebook, workflow_state.current_iteration + 1) :
           /\ codebook' = o.codebook
           /\ round_calls' = o.calls
           /\ executed' = executed \o Executions(o.calls, 1)
           /\ IF o.ending = "exit"
              THEN /\ pc' = "raised"
                   /\ UNCHANGED <<current_result, workflow_state>>
              ELSE /\ pc' = "loop"
                   /\ current_result' = o.result
                   /\ workflow_state' = [workflow_state EXCEPT !.current_iteration = 1]
    /\ UNCHANGED <<manager, manager_decision, returned, decision_inputs, n_decisions>>
    /\ UNCHANGED aux_vars

\* A loop that tests its condition after the first pass only.
LoopContinuesAfterFirstPass(ws) ==
    ws.current_iteration = 1 \/ ws.current_iteration < ws.max_iterations

\* Mutant: the loop runs one pass too many.
LoopContinuesInclusive(ws) == ws.current_iteration <= ws.max_iterations

\* The loop condition of line 98.
LoopContinues(ws) == ws.current_iteration < ws.max_iterations

\* The arguments solve_optimization_problem hands to make_decision,
\* lines 102-107.
DecisionInputs(result) ==
    [execution_result |-> result.execution_result,
     optimization_result |-> OptNone,
     error_info |-> result.error]

\* The decisions make_decision can return with a generation service
\* attached, manager.py lines 53-59.
ParsedDecisions == {ParseDecisionResult(t) : t \in ReplyTexts}

\* A decision round in which make_decision itself faults (the service
\* returns no text): the handler of lines 132-140 returns.
DecisionFaults ==
    /\ pc = "loop"
    /\ LoopContinues(workflow_state)
    /\ manager' = [manager EXCEPT !.iteration_count = @ + 1]
    /\ n_decisions' = n_decisions + 1
    /\ decision_inputs' = DecisionInputs(current_result)
    /\ manager_decision' = NoDecision
    /\ round_calls' = <<Call("manager", NoCode, NoLog, "fault", NoCode)>>
    /\ returned' = TopLevelFaultResult
    /\ pc' = "returned"
    /\ UNCHANGED <<workflow_state, codebook, current_result, executed>>
    /\ UNCHANGED aux_vars

\* One pass of the loop of lines 98-123: the decision, its execution, the
\* termination test, and then either finalization and the final result or
\* the next iteration.
DecisionRound ==
    /\ pc = "loop"
    /\ LoopContinues(workflow_state)
    /\ manager' = [manager EXCEPT !.iteration_count = @ + 1]
    /\ n_decisions' = n_decisions + 1
    /\ decision_inputs' = DecisionInputs(current_result)
    /\ \E d \in ParsedDecisions :
         \E o \in ExecuteManagerDecision(d, current_result, codebook,
                                         workflow_state.current_iteration + 1) :
           /\ manager_decision' = d
           /\ codebook' = o.codebook
           /\ round_calls' = <<Call("manager", NoCode, NoLog, "ok", NoCode)>> \o o.calls
           /\ executed' = executed
                            \o Executions(o.calls, workflow_state.current_iteration + 1)
           /\ CASE o.ending = "exit" ->
                     /\ pc' = "raised"
                     /\ UNCHANGED <<workflow_state, current_result, returned>>
                [] o.ending = "fault" ->
                     /\ pc' = "returned"
                     /\ returned' = TopLevelFaultResult
                     /\ UNCHANGED <<workflow_state, current_result>>
                [] o.ending = "ok" /\ ShouldTerminate(d, o.result) ->
                     /\ workflow_state' = FinalizeWorkflow(workflow_state, d, o.result)
                     /\ returned' = GenerateFinalResult(workflow_state')
                     /\ pc' = "returned"
                     /\ UNCHANGED current_result
                [] OTHER ->
                     /\ current_result' = o.result
                     /\ workflow_state' =
                            [workflow_state EXCEPT !.current_iteration = @ + 1]
                     /\ pc' = "loop"
                     /\ UNCHANGED returned
    /\ UNCHANGED aux_vars

\* The else branch of the loop, lines 125-130.
MaxIterationsReached ==
    /\ pc = "loop"
    /\ ~LoopContinues(workflow_state)
    /\ workflow_state' =
           FinalizeWorkflow(workflow_state,
                            Decision("TERMINATE_MAX_ITERATIONS", ""), current_result)
    /\ returned' = GenerateFinalResult(workflow_state')
    /\ pc' = "returned"
    /\ UNCHANGED <<codebook, current_result, manager, manager_decision, round_calls,
                   executed, decision_inputs, n_decisions>>
    /\ UNCHANGED aux_vars

Next ==
    \/ SolveOptimizationProblem
    \/ Round1
    \/ DecisionFaults
    \/ DecisionRound
    \/ MaxIterationsReached

Spec == Init /\ [][Next]_vars

\* ====================================================== the manager alone
\* A ManagerAgent on its own, with or without a generation service, called
\* with any arguments (manager.py lines 13-62).
InitManager ==
    /\ \E llm_client \in BOOLEAN : Constructed("manager", llm_client)
    /\ sandbox = SandboxAtRest(DefaultContext)
    /\ assembly = AssemblyAtRest(NetworkTemplate, NoSnippets)
    /\ parsed = ParsedAtRest("review", <<>>)

MakeDecisionStart(execution_result, opt, error_info) ==
    /\ pc = "manager"
    /\ manager.iteration_count < MaxCalls
    /\ manager' = [manager EXCEPT !.iteration_count = @ + 1]
    /\ n_decisions' = n_decisions + 1
    /\ decision_inputs' = [execution_result |-> execution_result,
                           optimization_result |-> opt, error_info |-> error_info]
    /\ UNCHANGED <<pc, workflow_state, codebook, current_result, returned,
                   round_calls, executed>>
    /\ UNCHANGED aux_vars

\* make_decision without a generation service, lines 60-62.
MakeDecisionRuleBased ==
    /\ ~manager.llm_client
    /\ \E e \in MgrExecResults, opt \in OptimizationResults, err \in ErrorInfos :
           /\ MakeDecisionStart(e, opt, err)
           /\ manager_decision' =
                  MockDecision(manager'.iteration_count, manager.max_iterations,
                               e, opt, err)

\* make_decision with a generation service that replies, lines 53-59.  The
\* arguments only fill the prompt, so the optimization result is left out.
MakeDecisionFromReply ==
    /\ manager.llm_client
    /\ \E e \in MgrExecResults, err \in ErrorInfos :
           /\ MakeDecisionStart(e, OptNone, err)
           /\ manager_decision' \in ParsedDecisions

\* make_decision with a generation service that returns no text: the parse
\* faults and no decision is returned.
MakeDecisionFaults ==
    /\ manager.llm_client
    /\ \E e \in MgrExecResults, err \in ErrorInfos :
           /\ MakeDecisionStart(e, OptNone, err)
           /\ manager_decision' = NoDecision

NextManager == MakeDecisionRuleBased \/ MakeDecisionFromReply \/ MakeDecisionFaults

SpecManager == InitManager /\ [][NextManager]_vars

\* ============================================= the ledger between two runs
\* The codebook as laid down by __init__, lines 34-45.
EmptyCodebook ==
    [objective_functions |-> <<>>, optimization_algorithms |-> <<>>,
     complete_codes |-> <<>>, corrected_codes |-> <<>>,
     current |-> [objective_function |-> NoneStr,
                  optimization_algorithm |-> NoneStr,
                  complete_code |-> NoCode, corrected_code |-> NoCode]]

\* clear_codebook_history(keep_current), lines 963-986: a public operation
\* the owner of the object can call whenever solve_optimization_problem is
\* not running.
ClearCodebookHistory ==
    /\ pc \in {"idle", "returned", "raised"}
    /\ \E keep_current \in BOOLEAN :
           codebook' = IF keep_current
                       THEN [EmptyCodebook EXCEPT !.current = codebook.current]
                       ELSE EmptyCodebook
    /\ UNCHANGED <<pc, workflow_state, current_result, manager, manager_decision,
                   returned, round_calls, executed, decision_inputs, n_decisions>>
    /\ UNCHANGED aux_vars

NextLedger == Next \/ ClearCodebookHistory

SpecLedger == Init /\ [][NextLedger]_vars

\* ====================================================== the sandbox alone
\* A CodeExecutor on its own, in any context, given any program.
InitSandbox ==
    /\ Constructed("sandbox", TRUE)
    /\ \E ctx \in Contexts : sandbox = SandboxAtRest(ctx)
    /\ assembly = AssemblyAtRest(NetworkTemplate, NoSnippets)
    /\ parsed = ParsedAtRest("review", <<>>)

\* execute_file(file_path), lines 166-203.
ExecuteFile ==
    /\ sandbox.pc = "idle"
    /\ \E program \in Programs, chdir_ok \in BOOLEAN :
           sandbox' = SandboxAfter("execute_file", sandbox.ctx,
                                   IF chdir_ok THEN program ELSE NoProgram,
                                   ExecuteFileOutcome(sandbox.ctx, program, chdir_ok),
                                   ~chdir_ok)
    /\ UNCHANGED <<orch_vars, assembly, parsed>>

\* execute_code(complete_code), lines 115-164.
ExecuteCode ==
    /\ sandbox.pc = "idle"
    /\ \E program \in Programs, chdir_ok \in BOOLEAN, write_ok \in BOOLEAN :
           sandbox' = SandboxAfter("execute_code", sandbox.ctx,
                                   IF chdir_ok /\ write_ok THEN program ELSE NoProgram,
                                   ExecuteCodeOutcome(sandbox.ctx, program, chdir_ok,
                                                      write_ok),
                                   ~(chdir_ok /\ write_ok))
    /\ UNCHANGED <<orch_vars, assembly, parsed>>

NextSandbox == ExecuteFile \/ ExecuteCode

SpecSandbox == InitSandbox /\ [][NextSandbox]_vars

\* ==================================================== the assembler alone
\* The lines a fragment for the first placeholder is made of.
FragmentLines ==
    {Line(0, "class", "K", "none"),
     Line(0, "def", "f", "none"),
     Statement(0, "s"),
     Statement(4, "s"),
     Statement(4, "if"),
     Statement(8, "s"),
     Line(4, "stmt", "literal", "OBJECTIVE_FUNCTION"),
     EmptyLine}

FragmentTexts == UNION {[1..n -> FragmentLines] : n \in 0..MaxFragLines}

\* Fragments for the second placeholder: none, the empty text, a class
\* followed by a function, and a function whose body holds the first
\* marker in a string literal.
ClassAndFunction ==
    <<Line(0, "class", "K", "none"), Statement(4, "s"), EmptyLine,
      Line(0, "def", "g", "none"), Statement(4, "if"), Statement(8, "s")>>

FunctionWithLiteral ==
    <<Line(0, "def", "g", "none"),
      Line(4, "stmt", "literal", "OBJECTIVE_FUNCTION")>>

SecondSnippets ==
    {NoSnippet,
     [given |-> TRUE, lines |-> <<>>, parse |-> "tree"],
     [given |-> TRUE, lines |-> Written(ClassAndFunction, "OPTIMIZATION_ALGORITHM"),
      parse |-> "tree"],
     [given |-> TRUE, lines |-> Written(FunctionWithLiteral, "OPTIMIZATION_ALGORITHM"),
      parse |-> "tree"]}

\* A CodeTemplate on its own, given any template and any fragment map.
InitAssembler ==
    /\ Constructed("assembler", TRUE)
    /\ sandbox = SandboxAtRest(DefaultContext)
    /\ parsed = ParsedAtRest("review", <<>>)
    /\ \E base_code \in Templates, text \in FragmentTexts,
          second \in SecondSnippets, given \in BOOLEAN :
         \E parse \in ParseOutcomes(NormalizeCode(text)) :
           /\ given \/ (text = <<>> /\ parse = "tree")
           /\ assembly =
                AssemblyAtRest(base_code,
                    [point_type \in {"OBJECTIVE_FUNCTION", "OPTIMIZATION_ALGORITHM"} |->
                        IF point_type = "OBJECTIVE_FUNCTION"
                        THEN [given |-> given,
                              lines |-> Written(text, "OBJECTIVE_FUNCTION"),
                              parse |-> parse]
                        ELSE second])

\* insert_code_snippets_robust(snippets), lines 59-103.
CallInsertCodeSnippetsRobust ==
    /\ assembly.pc = "idle"
    /\ assembly' =
           IF InsertCodeSnippetsRobustRaises(assembly.base_code, assembly.snippets)
           THEN [assembly EXCEPT !.pc = "raised"]
           ELSE [assembly EXCEPT
                    !.pc = "returned",
                    !.complete_code =
                        InsertCodeSnippetsRobust(assembly.base_code,
                                                 assembly.snippets)]
    /\ UNCHANGED <<orch_vars, sandbox, parsed>>

NextAssembler == CallInsertCodeSnippetsRobust

SpecAssembler == InitAssembler /\ [][NextAssembler]_vars

\* ===================================================== the parsers alone
\* A reply parser on its own, given any reply text of the generation
\* service.
InitParsers ==
    /\ Constructed("parsers", TRUE)
    /\ sandbox = SandboxAtRest(DefaultContext)
    /\ assembly = AssemblyAtRest(NetworkTemplate, NoSnippets)
    /\ \/ \E review_text \in VerdictTexts :
              parsed = ParsedAtRest("review", review_text)
       \/ \E decision_text \in ReplyTexts :
              parsed = ParsedAtRest("decision", decision_text)

\* _parse_review_result(review_text), reviewer_full.py lines 187-280.
CallParseReviewResult ==
    /\ parsed.pc = "idle" /\ parsed.kind = "review"
    /\ parsed' = [parsed EXCEPT !.pc = "returned",
                                !.result = ParseReviewResult(parsed.text)]
    /\ UNCHANGED <<orch_vars, sandbox, assembly>>

\* _parse_decision_result(decision_text), manager.py lines 209-240.
CallParseDecisionResult ==
    /\ parsed.pc = "idle" /\ parsed.kind = "decision"
    /\ parsed' = [parsed EXCEPT !.pc = "returned",
                                !.result = ParseDecisionResult(parsed.text)]
    /\ UNCHANGED <<orch_vars, sandbox, assembly>>

NextParsers == CallParseReviewResult \/ CallParseDecisionResult

SpecParsers == InitParsers /\ [][NextParsers]_vars

\* ================================================================= claims
Iteration == workflow_state.current_iteration
Ceiling == workflow_state.max_iterations
Finalized == pc = "returned" /\ returned.path = "final"
FinalizedInRound == Finalized /\ Iteration < Ceiling
FinalizedByCeiling == Finalized /\ Iteration >= Ceiling
FaultReturned == pc = "returned" /\ returned.path = "fault"
Ended == pc \in {"returned", "raised"}

\* Every step of the run moves solve_optimization_problem forward or is one
\* more consultation of the decision function.
Position ==
    CASE pc = "idle" -> 0
      [] pc = "round1" -> 1
      [] pc = "loop" -> 2
      [] OTHER -> 3
Progress == Position + n_decisions

\* C1: for every max_iterations >= 1 the run ends (every step increases a
\* measure bounded by max_iterations + 2, and a run that has not ended can
\* step); the iteration counter never exceeds max_iterations, the decision
\* function is consulted at most max_iterations - 1 times and the sandbox
\* runs at most max_iterations times.
C1_TerminatesWithinCeiling ==
    /\ [](Ceiling >= 1 =>
            /\ Iteration <= Ceiling
            /\ n_decisions <= Ceiling - 1
            /\ Len(executed) <= Ceiling
            /\ Progress <= Ceiling + 2)
    /\ [](Ended \/ ENABLED Next)
    /\ [][Progress' > Progress]_vars

C1_Witness ==
    /\ pc = "returned"
    /\ Ceiling >= 2
    /\ n_decisions = Ceiling - 1
    /\ Len(executed) = Ceiling

\* The termination condition as the claim C2 states it.
C2_Condition(kind, result) ==
    \/ kind = "TERMINATE_SUCCESS"
    \/ kind = "TERMINATE_FAILURE"
    \/ result.success /\ kind # "NEED_CORRECTION" /\ kind # "UPDATE_SOLVER"

DecisionMade == n_decisions > 0 /\ manager_decision # NoDecision

\* C2: a decision round finalizes the workflow exactly when the decision is
\* TERMINATE_SUCCESS or TERMINATE_FAILURE, or the round's result succeeded
\* and the decision is neither NEED_CORRECTION nor UPDATE_SOLVER; an explicit
\* TERMINATE_* decision makes no further call, keeps the result it was shown
\* and is recorded as the termination reason.
C2_TerminationRule ==
    DecisionMade =>
        LET kind == manager_decision.decision
        IN /\ FinalizedInRound =>
                /\ C2_Condition(kind, workflow_state.final_iteration_result)
                /\ kind \in {"TERMINATE_SUCCESS", "TERMINATE_FAILURE"} =>
                       /\ Len(round_calls) = 1
                       /\ workflow_state.final_iteration_result = current_result
                       /\ workflow_state.termination_reason = kind
                       /\ returned.termination_reason = kind
           /\ (pc = "loop" \/ FinalizedByCeiling) => ~C2_Condition(kind, current_result)
           /\ (pc = "raised" \/ FaultReturned) =>
                  kind \in {"NEED_CORRECTION", "UPDATE_SOLVER"}

C2_Witness ==
    /\ DecisionMade
    /\ FinalizedInRound
    /\ manager_decision.decision = "TERMINATE_FAILURE"
    /\ current_result.success
    /\ Len(executed) = 1

\* C3: when the iteration counter reaches max_iterations with no round having
\* finalized the workflow, the reason is TERMINATE_MAX_ITERATIONS and the
\* final success flag equals the success flag of the last round's result.
C3_ForcedTermination ==
    FinalizedByCeiling =>
        /\ workflow_state.termination_reason = "TERMINATE_MAX_ITERATIONS"
        /\ returned.termination_reason = "TERMINATE_MAX_ITERATIONS"
        /\ workflow_state.final_iteration_result = current_result
        /\ returned.success = current_result.success
        /\ returned.total_iterations = Iteration

C3_Witness ==
    /\ FinalizedByCeiling
    /\ n_decisions >= 1
    /\ returned.success
    /\ Len(executed) >= 2

\* C4: make_decision returns a decision whose kind is one of the four kinds.
C4_FourKindsOnly ==
    manager_decision # NoDecision => manager_decision.decision \in FourKinds

\* C5: a finalized workflow records one of the three terminal reasons.
C5_TerminalReasonsOnly ==
    Finalized => workflow_state.termination_reason \in TerminalReasons

\* C6: every returned value carries a success flag and a termination reason,
\* and an error text whenever success is false.
C6_ResultAlwaysComplete ==
    pc = "returned" =>
        /\ returned.success \in BOOLEAN
        /\ returned.termination_reason # Absent
        /\ ~returned.success => returned.error # Absent

\* C7: no fault raised inside a round reaches the caller of
\* solve_optimization_problem; the round's result has success = false and a
\* non-empty error instead.
C7_NeverPropagates == pc # "raised"

\* ---- the latest decision round, read from the calls it made
RoundNumber == n_decisions + 1
RoundCalls(op) == {i \in 1..Len(round_calls) : round_calls[i].op = op}
Reviewed == {i \in RoundCalls("review") : round_calls[i].outcome \in ReviewStatuses}
PriorRuns == {i \in 1..Len(executed) : executed[i].iteration < RoundNumber}
RoundRuns == {i \in 1..Len(executed) : executed[i].iteration = RoundNumber}
InRound(kind) == DecisionMade /\ manager_decision.decision = kind

C9_ReviewsLatestProgram ==
    (InRound("NEED_CORRECTION") /\ PriorRuns # {}) =>
        \A r \in RoundCalls("review") :
            LET latest == executed[CHOOSE i \in PriorRuns : \A j \in PriorRuns : j <= i]
                result == ExecutionResultOf(latest.outcome)
            IN /\ round_calls[r].code = latest.code
               /\ round_calls[r].error_log.output = result.output
               /\ round_calls[r].error_log.error = result.error

\* C10: an UPDATE_SOLVER round leaves fragment A and the objective-function
\* ledger unchanged, stores the new fragment B, assembles the new program from
\* the unchanged fragment A and the new fragment B, and runs that program.
C10_RegeneratesOnlySolver ==
    [][(pc = "loop" /\ n_decisions' = n_decisions + 1
            /\ manager_decision'.decision = "UPDATE_SOLVER") =>
          LET calls == round_calls'
              Ops(op) == {i \in 1..Len(calls) : calls[i].op = op}
              a == codebook.current.objective_function
          IN /\ codebook'.current.objective_function = a
             /\ codebook'.objective_functions = codebook.objective_functions
             /\ \A i \in Ops("solver") :
                    /\ calls[i].code = Frag(a)
                    /\ calls[i].outcome = "ok" =>
                           /\ calls[i].reply = Frag(codebook'.current.optimization_algorithm)
                           /\ codebook'.optimization_algorithms =
                                  Append(codebook.optimization_algorithms,
                                         Entry(workflow_state.current_iteration + 1,
                                               codebook'.current.optimization_algorithm))
             /\ \A i \in Ops("execute") \cup Ops("save") :
                    /\ calls[i].code =
                           Assemble(a, codebook'.current.optimization_algorithm)
                    /\ calls[i].code = codebook'.current.complete_code
             /\ \A i \in Ops("save") : calls[i].outcome = "ok" => Ops("execute") # {}
             /\ Ops("review") = {} /\ Ops("designer") = {}]_vars

C10_Witness ==
    /\ InRound("UPDATE_SOLVER")
    /\ Len(codebook.optimization_algorithms) = 2
    /\ codebook.optimization_algorithms[1].code # codebook.optimization_algorithms[2].code
    /\ \E x \in RoundCalls("execute") :
           /\ round_calls[x].outcome = "ok"
           /\ round_calls[x].code = Assemble("A1", codebook.current.optimization_algorithm)

\* ---- the ledger
LedgerLists ==
    {"objective_functions", "optimization_algorithms", "complete_codes",
     "corrected_codes"}
IsPrefix(s, t) == Len(s) <= Len(t) /\ SubSeq(t, 1, Len(s)) = s

\* C11: the four ledger lists are append-only: every step of every operation
\* of the orchestrator leaves each list's earlier entries in place and
\* unchanged, so no list ever gets shorter.
C11_LedgerAppendOnly ==
    [][\A list \in LedgerLists : IsPrefix(codebook[list], codebook'[list])]_vars

\* C12: once a round is over, every result the sandbox produced so far is in
\* the recorded execution history.
C12_ExecutionsRecorded ==
    pc \in {"loop", "returned"} =>
        Len(workflow_state.execution_history) = Len(executed)

\* ---- round 1, read from the calls it made
Round1Done == n_decisions = 0 /\ pc \in {"loop", "returned", "raised"}
Round1Steps == <<"designer", "solver", "assemble", "review", "save", "execute">>
StepSucceeded(c) ==
    IF c.op = "review" THEN c.outcome \in ReviewStatuses ELSE c.outcome = "ok"

\* C13 as stated: round 1 always makes all of its calls, whatever the outcome
\* of an earlier one.
C13_AlwaysRunsInFull ==
    Round1Done =>
        \A step \in {"designer", "solver", "assemble", "review", "execute"} :
            \E i \in 1..Len(round_calls) : round_calls[i].op = step

\* C13 amended: round 1 makes its calls in the fixed order designer, solver,
\* assembler, reviewer, save, sandbox; a call is made only when every earlier
\* one succeeded (the reviewer: returned a verdict, whatever its status), so
\* the round stops at the first call that fails; the solver is given fragment
\* A, the assembler builds the program from A and B, and the reviewer is
\* given that program.
C13_StopsAtFirstFailure ==
    Round1Done =>
        LET n == Len(round_calls)
        IN /\ n \in 1..6
           /\ \A i \in 1..n : round_calls[i].op = Round1Steps[i]
           /\ \A i \in 1..(n - 1) : StepSucceeded(round_calls[i])
           /\ n < 6 => ~StepSucceeded(round_calls[n])
           /\ n >= 2 => round_calls[2].code = round_calls[1].reply
           /\ (n >= 3 /\ StepSucceeded(round_calls[3])) =>
                  round_calls[3].reply =
                      Assemble(round_calls[1].reply[2], round_calls[2].reply[2])
           /\ n >= 4 => round_calls[4].code = round_calls[3].reply

C13_Witness ==
    /\ Round1Done
    /\ Len(round_calls) = 6
    /\ round_calls[4].outcome = "FAIL"
    /\ round_calls[6].op = "execute"
    /\ round_calls[6].outcome = "error"

\* C14: in round 1 the program saved and run is the reviewer's corrected
\* program exactly when the verdict is NEEDS_MODIFICATION with a non-empty
\* corrected program, and the assembled program in every other case; an
\* entry (keyed 1, holding the corrected program) is appended to
\* corrected_codes in the first case only.
C14_Round1RunsCorrectedOnlyWhenGiven ==
    (Round1Done /\ Reviewed # {}) =>
        \A r \in Reviewed :
            LET review == round_calls[r]
                corrected == review.outcome = "NEEDS_MODIFICATION"
                                 /\ review.reply # NoCode
                final_code == IF corrected THEN review.reply ELSE review.code
            IN /\ \A x \in RoundCalls("save") \cup RoundCalls("execute") :
                      round_calls[x].code = final_code
               /\ \A x \in RoundCalls("execute") :
                      round_calls[x].code = review.reply <=>
                          (corrected \/ review.reply = review.code)
               /\ RoundCalls("save") # {}
               /\ codebook.corrected_codes =
                      IF corrected THEN <<Entry(1, review.reply)>> ELSE <<>>
               /\ review.code = codebook.complete_codes[1].code

C14_Witness ==
    /\ Round1Done
    /\ \E r \in Reviewed, x \in RoundCalls("execute") :
           /\ round_calls[r].outcome = "NEEDS_MODIFICATION"
           /\ round_calls[r].reply \in ReviewerTexts
           /\ round_calls[x].code = round_calls[r].reply
    /\ Len(codebook.corrected_codes) = 1

\* ---- one sandbox call
SandboxEnded == sandbox.pc \in {"returned", "raised"}
ProgramRan == SandboxEnded /\ ~sandbox.internal_fault

C16_FaultsBecomeResults ==
    (ProgramRan /\ sandbox.program.ending # "finish") =>
        /\ sandbox.pc = "returned"
        /\ ~sandbox.result.success
        /\ sandbox.result.error # <<>>

\* C17: after every call of execute_code the temporary file it wrote no
\* longer exists.
C17_TempFileRemoved ==
    (SandboxEnded /\ sandbox.entry = "execute_code") => ~sandbox.ctx.temp_file

\* ---- one call of the assembler
AssemblyReturned == assembly.pc = "returned"

PointTypeSet == {PointTypes[i] : i \in 1..Len(PointTypes)}

\* The lines of the template that are placeholder lines.
PlaceholderLines(base_code) ==
    {i \in 1..Len(base_code) : base_code[i].kind = "marker"}

\* The lines of code that were written in the template outside its
\* placeholder lines.
TemplateLinesKept(base_code, code) ==
    SelectSeq(code, LAMBDA l : l.from = "base" /\ l.at \notin PlaceholderLines(base_code))

\* C18: for every template and every fragment map (fragments present,
\* empty, missing or malformed, also when a fragment or a hoisted class
\* holds a placeholder marker in its own text), the assembled program holds
\* no placeholder marker of the template, and the template's lines other
\* than its placeholder lines are all there, in order and unchanged.
C18_NoMarkerLeft ==
    AssemblyReturned =>
        /\ \A point_type \in PointTypeSet :
               Contains(assembly.base_code, point_type) =>
                   ~Contains(assembly.complete_code, point_type)
        /\ TemplateLinesKept(assembly.base_code, assembly.complete_code)
               = TemplateLinesKept(assembly.base_code, assembly.base_code)

\* ---- hoisted classes
\* Where in code the line written at line at of the fragment from stands.
Positions(code, from, at) ==
    {p \in 1..Len(code) : code[p].from = from /\ code[p].at = at}

\* The non-blank lines of the class declared at line i of lines: its header
\* and the indented lines under it.
ClassLines(lines, i) ==
    {lines[j].at : j \in {j \in i..Len(lines) :
        /\ ~IsBlank(lines[j])
        /\ \A k \in (i + 1)..j : IsBlank(lines[k]) \/ lines[k].indent > 0}}

\* Position p of code lies after the template's imports and before the
\* template's own declarations.
InHoistRegion(code, p) ==
    \A q \in 1..Len(code) :
        code[q].from = "base" =>
            /\ code[q].kind = "import" => q < p
            /\ code[q].kind \in {"def", "class"} => p < q

\* Every top-level class of the fragment given for point_type stands once
\* in code, in the hoist region.
ClassesHoistedOnce(snippet, point_type, code) ==
    LET lines == NormalizeCode(snippet.lines)
    IN  \A i \in 1..Len(lines) :
            (lines[i].kind = "class" /\ lines[i].indent = 0) =>
                \A at \in ClassLines(lines, i) :
                    /\ Cardinality(Positions(code, point_type, at)) = 1
                    /\ \A p \in Positions(code, point_type, at) :
                           InHoistRegion(code, p)

\* C19: every top-level class declaration of any fragment appears exactly
\* once in the assembled program, not in the text inserted at the
\* fragment's placeholder but after the last import and before the first
\* declaration of the template, whichever way the fragment was processed
\* (parsed, scanned as text after a syntax error, or re-indented after a
\* fault).
C19_ClassesHoistedOnce ==
    AssemblyReturned =>
        \A point_type \in PointTypeSet :
            Truthy(assembly.snippets[point_type]) =>
                ClassesHoistedOnce(assembly.snippets[point_type], point_type,
                                   assembly.complete_code)

\* ---- indentation of the inserted text
\* The placeholder line of point_type in the template.
PlaceholderAt(base_code, point_type) ==
    CHOOSE i \in 1..Len(base_code) :
        base_code[i].kind = "marker" /\ base_code[i].mentions = point_type

\* The placeholder of point_type sits in the body of a method: the nearest
\* line above it that is indented less is a def line.
InMethod(base_code, point_type) ==
    LET at == PlaceholderAt(base_code, point_type)
        above == {i \in 1..(at - 1) :
                     ~IsBlank(base_code[i]) /\ base_code[i].indent < base_code[at].indent}
    IN  /\ above # {}
        /\ base_code[CHOOSE i \in above : \A j \in above : j <= i].kind = "def"

MethodBodyDepth(base_code, point_type) ==
    base_code[PlaceholderAt(base_code, point_type)].indent

\* The indentation of the fragment line written at line at, relative to
\* the first line of the body it belongs to: the first non-blank line under
\* the nearest top-level def header above it, or the first non-blank line
\* of the fragment when there is none.
RelativeIndent(lines, at) ==
    LET j == CHOOSE j \in 1..Len(lines) : lines[j].at = at
        headers == {i \in 1..(j - 1) : lines[i].kind = "def" /\ lines[i].indent = 0}
        header == IF headers = {} THEN 0
                  ELSE CHOOSE i \in headers : \A k \in headers : k <= i
        body == {i \in (header + 1)..j : ~IsBlank(lines[i])}
        start == CHOOSE i \in body : \A k \in body : i <= k
    IN  lines[j].indent - lines[start].indent

\* C20: when a fragment body of one or more lines is inserted at a
\* placeholder that sits inside a method of the template, every non-blank
\* inserted line, the first one too, is indented to the depth of the
\* method's body plus the line's relative indentation within the fragment
\* body.
C20_InsertedLinesIndented ==
    AssemblyReturned =>
        \A point_type \in PointTypeSet :
            InMethod(assembly.base_code, point_type) =>
                \A p \in 1..Len(assembly.complete_code) :
                    LET line == assembly.complete_code[p]
                    IN  (/\ line.from = point_type
                         /\ ~IsBlank(line)
                         /\ ~InHoistRegion(assembly.complete_code, p)) =>
                            line.indent =
                                MethodBodyDepth(assembly.base_code, point_type)
                                + RelativeIndent(
                                      NormalizeCode(assembly.snippets[point_type].lines),
                                      line.at)

\* ---- the fallbacks of the assembler
\* The lines of code that came from the fragment given for point_type and
\* stand outside the hoist region: the text inserted at its placeholder.
InsertedText(code, point_type) ==
    LET at == SelectSeq(Indices(1, Len(code)),
                        LAMBDA p : code[p].from = point_type
                                   /\ ~InHoistRegion(code, p))
    IN  [n \in 1..Len(at) |-> code[at[n]]]

LineNumbers(lines) == [n \in 1..Len(lines) |-> lines[n].at]

\* The indentation the fragment line written at line at has after
\* normalisation.
NormalizedIndent(snippet, at) ==
    LET lines == NormalizeCode(snippet.lines)
    IN  lines[CHOOSE j \in 1..Len(lines) : lines[j].at = at].indent

\* The fragment's lines that are no def or class header, blank ends cut.
WithoutHeaders(snippet) ==
    SelectSeq(Strip(snippet.lines), LAMBDA l : l.kind \notin {"def", "class"})

\* C21: insert_code_snippets_robust never raises, whatever the fragment
\* text.  A fragment that does not parse goes through the text fallback
\* (its classes are hoisted, its other lines keep their indentation under
\* the method indentation); a fragment whose processing faults in another
\* way goes through the simple fallback: its lines are inserted in order
\* with the def and class header lines removed and every line put at the
\* method indentation.
C21_NeverRaises ==
    /\ assembly.pc # "raised"
    /\ AssemblyReturned =>
        \A point_type \in PointTypeSet :
            LET snippet == assembly.snippets[point_type]
                inserted == InsertedText(assembly.complete_code, point_type)
                Later(indent(_)) ==
                    \A n \in 2..Len(inserted) :
                        ~IsBlank(inserted[n]) =>
                            inserted[n].indent = indent(inserted[n])
                AsNormalized(l) == MethodIndent + NormalizedIndent(snippet, l.at)
                Flat(l) == MethodIndent
            IN  /\ (Truthy(snippet) /\ snippet.parse = "SyntaxError") =>
                       /\ ClassesHoistedOnce(snippet, point_type,
                                             assembly.complete_code)
                       /\ Later(AsNormalized)
                /\ (Truthy(snippet) /\ snippet.parse = "RecursionError") =>
                       /\ LineNumbers(inserted) = LineNumbers(WithoutHeaders(snippet))
                       /\ Later(Flat)

\* A fragment with a header line and a statement whose parse faulted has
\* been assembled.
C21_Witness ==
    /\ AssemblyReturned
    /\ assembly.snippets["OBJECTIVE_FUNCTION"].parse = "RecursionError"
    /\ \E i \in 1..Len(assembly.snippets["OBJECTIVE_FUNCTION"].lines) :
           assembly.snippets["OBJECTIVE_FUNCTION"].lines[i].kind \in {"def", "class"}
    /\ Len(InsertedText(assembly.complete_code, "OBJECTIVE_FUNCTION")) >= 2

\* ---- the structural-parse path
\* The top-level line that the non-blank line j of a fragment belongs to:
\* the nearest line at or above it that is not indented.
TopLevelOf(lines, j) ==
    LET top == {i \in 1..j : ~IsBlank(lines[i]) /\ lines[i].indent = 0}
    IN  CHOOSE i \in top : \A k \in top : k <= i

\* The lines of the bodies of the top-level function definitions, in order.
FunctionBodyLines(lines) ==
    LET at == SelectSeq(Indices(1, Len(lines)),
                        LAMBDA j : /\ ~IsBlank(lines[j])
                                   /\ lines[j].indent > 0
                                   /\ lines[TopLevelOf(lines, j)].kind = "def")
    IN  [n \in 1..Len(at) |-> lines[at[n]]]

HasTag(text, tag) == \E i \in 1..Len(text) : text[i][1] = tag

\* C22: a reviewer verdict text with no status field is read as PASS with
\* no corrected program, and a manager decision text with no decision
\* field is read as CONTINUE_OPTIMIZATION; both parsers return.
C22_ParseDefaults ==
    /\ parsed.pc \in {"idle", "returned"}
    /\ parsed.pc = "returned" =>
        /\ (parsed.kind = "review" /\ ~HasTag(parsed.text, "REVIEW_STATUS")) =>
               /\ parsed.result.status = "PASS"
               /\ parsed.result.corrected_complete_code = <<>>
        /\ (parsed.kind = "decision" /\ ~HasTag(parsed.text, "DECISION")) =>
               parsed.result.decision = "CONTINUE_OPTIMIZATION"

\* ---- one call of the rule-based decision
RuleBasedDecided == ~manager.llm_client /\ n_decisions >= 1

\* C23: on its first call, with ceiling 5, the rule-based decision function
\* given an execution result with success = true and an optimization
\* result that carries a finite objective value returns TERMINATE_SUCCESS.
C23_FirstCallSuccess ==
    (/\ RuleBasedDecided
     /\ manager.iteration_count = 1
     /\ manager.max_iterations = ManagerCeiling
     /\ decision_inputs.execution_result = ExecOk
     /\ decision_inputs.error_info = NoneStr
     /\ decision_inputs.optimization_result.kind = "plain"
     /\ decision_inputs.optimization_result.objective_value = "finite") =>
        manager_decision.decision = "TERMINATE_SUCCESS"

\* C24 as stated: given an execution result with success = false, with or
\* without an error text, the rule-based decision function returns
\* NEED_CORRECTION on every call.
C24_FailureAlwaysCorrected ==
    (RuleBasedDecided /\ decision_inputs.execution_result = ExecFail) =>
        manager_decision.decision = "NEED_CORRECTION"

\* C24: given an execution result with success = false, with or without an
\* error text, the rule-based decision function returns NEED_CORRECTION on
\* every call before the one that reaches its ceiling, and
\* TERMINATE_FAILURE from that call on.
C24_FailureCorrectedBelowCeiling ==
    (RuleBasedDecided /\ decision_inputs.execution_result = ExecFail) =>
        manager_decision.decision =
            IF manager.iteration_count < manager.max_iterations
            THEN "NEED_CORRECTION" ELSE "TERMINATE_FAILURE"

\* A later call below the ceiling was given a failed execution whose error
\* text names a syntax error.
C24_Witness ==
    /\ RuleBasedDecided
    /\ manager.iteration_count >= 2
    /\ manager.iteration_count < manager.max_iterations
    /\ decision_inputs.execution_result = ExecFail
    /\ decision_inputs.error_info = "syntax error"
    /\ manager_decision.decision = "NEED_CORRECTION"

\* ---- the final result and the last run
\* C25: a workflow that ends through finalization reports success = true
\* only if the most recent sandbox execution of the workflow succeeded,
\* whatever termination reason was recorded.
C25_SuccessOnlyAfterSuccessfulRun ==
    (Finalized /\ returned.success) =>
        /\ executed # <<>>
        /\ executed[Len(executed)].outcome = "ok"

\* ---- rounds that repair or regenerate
\* C26: a round whose decision is NEED_CORRECTION or UPDATE_SOLVER does not
\* finalize the workflow, also when the program it repaired or regenerated
\* ran successfully: a workflow finalized with such a decision as its latest
\* was finalized by the iteration ceiling.
C26_RepairRoundDoesNotTerminate ==
    (Finalized /\ (InRound("NEED_CORRECTION") \/ InRound("UPDATE_SOLVER"))) =>
        /\ ~FinalizedInRound
        /\ workflow_state.termination_reason = "TERMINATE_MAX_ITERATIONS"

\* A correction round ran its program successfully and the workflow then
\* ended at the ceiling.
C26_Witness ==
    /\ InRound("NEED_CORRECTION")
    /\ FinalizedByCeiling
    /\ RoundRuns # {}
    /\ \A i \in RoundRuns : executed[i].outcome = "ok"
    /\ returned.success

\* ---- decisions of an unknown kind
\* C27: a decision round whose decision is none of the four recognized kinds,
\* taken on a round result with success = false, makes no call beyond the
\* decision itself, runs nothing, leaves the ledger and the current result
\* as they were and only increments the iteration counter; the next decision
\* is given that same result.
C27_UnknownKindOnlyCounts ==
    [][(pc = "loop" /\ n_decisions' = n_decisions + 1
            /\ round_calls'[1].outcome = "ok"
            /\ manager_decision'.decision \notin FourKinds
            /\ ~current_result.success) =>
          /\ Len(round_calls') = 1
          /\ executed' = executed
          /\ codebook' = codebook
          /\ current_result' = current_result
          /\ workflow_state' =
                 [workflow_state EXCEPT !.current_iteration = @ + 1]
          /\ returned' = returned
          /\ pc' = "loop"
          /\ DecisionInputs(current_result') = decision_inputs']_vars

\* A decision of an unknown kind was taken on a failed result and the loop
\* went on.
C27_Witness ==
    /\ pc = "loop"
    /\ DecisionMade
    /\ manager_decision.decision \in {"CONTINUE_OPTIMIZATION", "REVIEW"}
    /\ ~current_result.success
    /\ Len(round_calls) = 1
    /\ Iteration = RoundNumber

\* ---- a ceiling of one round
\* C28: with max_iterations of 1 or less the decision function is never
\* consulted: once round 1 has returned, the loop takes no pass and the
\* workflow is finalized with reason TERMINATE_MAX_ITERATIONS,
\* total_iterations = 1 and the success flag of round 1's result.
C28_SingleRoundCeiling ==
    (Ceiling <= 1 /\ pc \in {"loop", "returned"}) =>
        /\ n_decisions = 0
        /\ Iteration = 1
        /\ ~LoopContinues(workflow_state)
        /\ pc = "returned" =>
               /\ Finalized
               /\ returned.termination_reason = "TERMINATE_MAX_ITERATIONS"
               /\ returned.total_iterations = 1
               /\ returned.success = current_result.success
               /\ workflow_state.final_iteration_result = current_result

\* A workflow started with max_iterations = 0 ran round 1 successfully and
\* was finalized.
C28_Witness ==
    /\ Ceiling = 0
    /\ Finalized
    /\ executed # <<>>
    /\ returned.success
    /\ returned.total_iterations = 1

\* ---- what is executed is in the ledger
\* The codes of the entries of complete_codes and corrected_codes keyed by
\* round it or an earlier one.
ProgramsInLedger(cb, it) ==
    UNION {{cb[list][k].code :
               k \in {j \in 1..Len(cb[list]) : cb[list][j].iteration <= it}}
           : list \in {"complete_codes", "corrected_codes"}}

\* Every program run so far is the code of a ledger entry of its round or
\* an earlier one.
ExecutedFromLedger ==
    \A i \in 1..Len(executed) :
        executed[i].code \in ProgramsInLedger(codebook, executed[i].iteration)

\* The number of the round a step from the current state belongs to.
RoundOfStep == IF pc = "round1" THEN 1 ELSE Iteration + 1

\* The entries a step appends carry the number of the step's round.
AppendsKeyedByRound ==
    \A list \in LedgerLists :
        \A k \in (Len(codebook[list]) + 1)..Len(codebook'[list]) :
            codebook'[list][k].iteration = RoundOfStep

KeysNonDecreasing ==
    \A list \in LedgerLists :
        \A j, k \in 1..Len(codebook[list]) :
            j <= k => codebook[list][j].iteration <= codebook[list][k].iteration

KeysAtMost(n) ==
    \A list \in LedgerLists :
        \A k \in 1..Len(codebook[list]) : codebook[list][k].iteration <= n

\* C29 as stated: during one run every executed program is, when it runs,
\* the code of an entry of complete_codes or corrected_codes; every entry
\* appended in a round is keyed by that round's number; keys are
\* non-decreasing in append order and never exceed max_iterations.
C29_ExecutedInLedgerKeysWithinCeiling ==
    /\ [](ExecutedFromLedger /\ KeysNonDecreasing /\ KeysAtMost(Ceiling))
    /\ [][AppendsKeyedByRound]_vars

\* C29, amended: as above, with the keys bounded by max_iterations or by 1,
\* whichever is larger (round 1 runs, keyed 1, also when max_iterations is
\* below 1).
C29_ExecutedInLedgerKeysWithinRounds ==
    /\ [](ExecutedFromLedger /\ KeysNonDecreasing
              /\ KeysAtMost(IF Ceiling < 1 THEN 1 ELSE Ceiling))
    /\ [][AppendsKeyedByRound]_vars

\* A later round ran a program and the ledger holds entries of two rounds.
C29_Witness ==
    /\ \E i \in 1..Len(executed) : executed[i].iteration = 2
    /\ \E k \in 1..Len(codebook.corrected_codes) :
           codebook.corrected_codes[k].iteration = 2
    /\ \E k \in 1..Len(codebook.complete_codes) :
           codebook.complete_codes[k].iteration = 1

====
